---- MODULE Spec2Model ----
(***************************************************************************)
(* Model of apollo-parser's parser driver (crates/apollo-parser/src/       *)
(* parser/mod.rs): Parser::new, Parser::parse, the driver primitives and   *)
(* NodeGuard.  The lexer, the tree builder and the grammar productions     *)
(* live in sibling modules; they are modelled from their specification.    *)
(***************************************************************************)
EXTENDS Integers, Sequences, FiniteSets, TLC

\* ------------------------------------------------------------------ bounds
MaxLen == 2      \* longest lexer output (tokens and errors) of an input
MaxInner == 1    \* nodes the productions of one parse open below their own
MaxErrs == 2     \* push_err calls of one parse
MaxStarts == 3   \* start_node calls in a run of guards released in any order

\* ------------------------------------------------------------- vocabulary
\* Option<T>: the empty sequence is None, <<x>> is Some(x).
None == <<>>

Some(x) == <<x>>

\* lexer::Token: kind() and data().
Tok(kind, data) == [tag |-> "Ok", kind |-> kind, data |-> data]

\* crate::Error as produced by the lexer, named by the place of the bad lexeme
\* in the input.
LexErr(at) == [tag |-> "Err", kind |-> "ERROR", at |-> at]

\* crate::Error as pushed by a grammar production, named by the number of the
\* push_err call that reports it.
SynErr(at) == [tag |-> "Syn", kind |-> "ERROR", at |-> at]

\* What the lexer may yield for the i-th lexeme of the input.
LexItems(i) ==
    { Tok("IDENT", "fragment"), Tok("PUNCT", "{"), Tok("IDENT", "extend"),
      LexErr(i) }

\* The lexer's results for the inputs of at most n lexemes.
LexResults(n) ==
    UNION { { s \in [1..k -> UNION { LexItems(i) : i \in 1..k }] :
                \A i \in 1..k : s[i] \in LexItems(i) } : k \in 0..n }

\* SyntaxKinds a production gives to the tokens it records.
TokenKinds == { "IDENT", "KW" }

\* SyntaxKinds of the nodes a production opens below its own node.
InnerKinds == { "NAME" }

Reverse(s) == [i \in 1..Len(s) |-> s[Len(s) + 1 - i]]

Last(s) == s[Len(s)]

Front(s) == SubSeq(s, 1, Len(s) - 1)

\* ------------------------------------------------------------------ lexer
\* Lexer::tokens(): the results in source order.
LexerTokens(src) == src

IsOk(item) == item.tag = "Ok"

IsErr(item) == item.tag = "Err"

\* --------------------------------------------------------------- builder
\* SyntaxTreeBuilder::new(): no events, no open node.
SyntaxTreeBuilder_new == [events |-> <<>>, open |-> <<>>]

StartEv(kind) == [ev |-> "start_node", kind |-> kind, data |-> ""]

TokenEv(kind, data) == [ev |-> "token", kind |-> kind, data |-> data]

FinishEv == [ev |-> "finish_node", kind |-> "", data |-> ""]

Builder_start_node(b, kind) ==
    [events |-> Append(b.events, StartEv(kind)), open |-> Append(b.open, kind)]

Builder_token(b, kind, data) ==
    [b EXCEPT !.events = Append(@, TokenEv(kind, data))]

\* Closes the most recently opened node.
Builder_finish_node(b) ==
    [events |-> Append(b.events, FinishEv),
     open |-> IF b.open = <<>> THEN <<>> ELSE Front(b.open)]

\* SyntaxTreeBuilder::finish(errors): the tree and its errors.
Builder_finish(b, errors) == [root |-> b.events, errors |-> errors]

\* ----------------------------------------------------------------- parser
\* Parser::new without tokens.reverse().
Parser_new_unreversed(input) ==
    LET results == LexerTokens(input)
    IN [tokens |-> SelectSeq(results, IsOk),
        builder |-> SyntaxTreeBuilder_new,
        errors |-> Reverse(SelectSeq(results, IsErr))]

\* Parser::new that reports an input without tokens as an error.
Parser_new_eof_error(input) ==
    LET results == LexerTokens(input)
        tokens == SelectSeq(results, IsOk)
        errors == SelectSeq(results, IsErr)
    IN [tokens |-> Reverse(tokens),
        builder |-> SyntaxTreeBuilder_new,
        errors |-> Reverse(errors) \o (IF tokens = <<>> THEN <<LexErr(0)>> ELSE <<>>)]

\* Parser::new.
Parser_new(input) ==
    LET results == LexerTokens(input)
        tokens == SelectSeq(results, IsOk)
        errors == SelectSeq(results, IsErr)
    IN [tokens |-> Reverse(tokens),
        builder |-> SyntaxTreeBuilder_new,
        errors |-> Reverse(errors)]

\* Parser::peek_data.
Parser_peek_data(p) ==
    IF p.tokens = <<>> THEN None ELSE Some(Last(p.tokens).data)

\* Parser::peek.
Parser_peek(p) ==
    IF p.tokens = <<>> THEN None ELSE Some(Last(p.tokens).kind)

\* A panic of the running thread, with its message.
Panic == <<"panic", "attempt to subtract with overflow">>

\* self.tokens.len() - n in usize, then Vec::get: with overflow checks the
\* subtraction panics when n > len, without them it wraps to an index past
\* the end of the vector.  The index is 0-based.
TokensGet(p, n, checks) ==
    LET len == Len(p.tokens)
    IN IF n > len
         THEN (IF checks THEN Panic ELSE None)
         ELSE IF len - n < len THEN Some(p.tokens[len - n + 1]) ELSE None

\* self.tokens.get(n - 1): counts from the bottom of the stack.
TokensGet_from_bottom(p, n, checks) ==
    IF 1 <= n /\ n <= Len(p.tokens) THEN Some(p.tokens[n]) ELSE None

\* Option::map.
OptionMap(opt, field) ==
    IF opt = None \/ opt = Panic THEN opt ELSE Some(opt[1][field])

\* Parser::peek_n indexing the vector from its bottom.
Parser_peek_n_from_bottom(p, n, checks) ==
    OptionMap(TokensGet_from_bottom(p, n, checks), "kind")

\* Parser::peek_n.
Parser_peek_n(p, n, checks) == OptionMap(TokensGet(p, n, checks), "kind")

\* Parser::peek_data_n.
Parser_peek_data_n(p, n, checks) == OptionMap(TokensGet(p, n, checks), "data")

\* Parser::pop that takes the token at the bottom of the stack.
Parser_pop_bottom(p) == [p EXCEPT !.tokens = Tail(@)]

\* Parser::pop: the parser after the pop; the popped token is Last(p.tokens).
Parser_pop(p) == [p EXCEPT !.tokens = Front(@)]

\* Parser::push_ast that records the token under the kind the lexer gave it.
Parser_push_ast_lexer_kind(p, kind, token) ==
    [p EXCEPT !.builder = Builder_token(@, token.kind, token.data)]

\* Parser::push_ast.
Parser_push_ast(p, kind, token) ==
    [p EXCEPT !.builder = Builder_token(@, kind, token.data)]

\* Parser::bump that records the next token and leaves it on the stack.
Parser_bump_keep(p, kind) ==
    [p EXCEPT !.builder = Builder_token(@, kind, Last(p.tokens).data)]

\* Parser::bump.
Parser_bump(p, kind) ==
    LET token == Last(p.tokens)
    IN [p EXCEPT !.tokens = Front(@),
                 !.builder = Builder_token(@, kind, token.data)]

\* Parser::push_err that inserts the error in front of the others.
Parser_push_err_front(p, err) == [p EXCEPT !.errors = <<err>> \o @]

\* Parser::push_err.
Parser_push_err(p, err) == [p EXCEPT !.errors = Append(@, err)]

\* Parser::start_node that hands out a guard without opening a node.
Parser_start_node_no_open(p, kind) == p

\* Parser::start_node: the parser after the call; the caller gets a guard.
Parser_start_node(p, kind) ==
    [p EXCEPT !.builder = Builder_start_node(@, kind)]

\* A Drop for NodeGuard that leaves the builder alone.
NodeGuard_drop_noop(p) == p

\* impl Drop for NodeGuard.
NodeGuard_drop(p) == [p EXCEPT !.builder = Builder_finish_node(@)]

\* NodeGuard::finish_node that closes the node itself and then drops self.
NodeGuard_finish_node_twice(p) ==
    NodeGuard_drop([p EXCEPT !.builder = Builder_finish_node(@)])

\* NodeGuard::finish_node: drop(self).
NodeGuard_finish_node(p) == NodeGuard_drop(p)

\* The match of Parser::parse without its "fragment" arm.
TopLevelArm_no_fragment(text) ==
    CASE text = "directive" -> "directive_definition"
      [] text = "schema" -> "schema_definition"
      [] text = "scalar" -> "scalar_type_definition"
      [] text = "type" -> "object_type_definition"
      [] text = "interface" -> "interface_type_definition"
      [] text = "union" -> "union_type_definition"
      [] text = "enum" -> "enum_type_definition"
      [] text = "input" -> "input_object_type_definition"
      [] text \in {"query", "mutation", "subscription", "{"} ->
            "operation_definition"
      [] OTHER -> "break"

\* The match of Parser::parse with a last arm that calls a production.
TopLevelArm_other_dispatch(text) ==
    CASE text = "fragment" -> "fragment_definition"
      [] text = "directive" -> "directive_definition"
      [] text = "schema" -> "schema_definition"
      [] text = "scalar" -> "scalar_type_definition"
      [] text = "type" -> "object_type_definition"
      [] text = "interface" -> "interface_type_definition"
      [] text = "union" -> "union_type_definition"
      [] text = "enum" -> "enum_type_definition"
      [] text = "input" -> "input_object_type_definition"
      [] OTHER -> "operation_definition"

\* The match of Parser::parse with the "type" arm calling the interface
\* production.
TopLevelArm_type_as_interface(text) ==
    CASE text = "fragment" -> "fragment_definition"
      [] text = "directive" -> "directive_definition"
      [] text = "schema" -> "schema_definition"
      [] text = "scalar" -> "scalar_type_definition"
      [] text = "type" -> "interface_type_definition"
      [] text = "interface" -> "interface_type_definition"
      [] text = "union" -> "union_type_definition"
      [] text = "enum" -> "enum_type_definition"
      [] text = "input" -> "input_object_type_definition"
      [] text \in {"query", "mutation", "subscription", "{"} ->
            "operation_definition"
      [] OTHER -> "break"

\* The match of Parser::parse on the text of the next token.
TopLevelArm(text) ==
    CASE text = "fragment" -> "fragment_definition"
      [] text = "directive" -> "directive_definition"
      [] text = "schema" -> "schema_definition"
      [] text = "scalar" -> "scalar_type_definition"
      [] text = "type" -> "object_type_definition"
      [] text = "interface" -> "interface_type_definition"
      [] text = "union" -> "union_type_definition"
      [] text = "enum" -> "enum_type_definition"
      [] text = "input" -> "input_object_type_definition"
      [] text \in {"query", "mutation", "subscription", "{"} ->
            "operation_definition"
      [] OTHER -> "break"

\* The loop of Parser::parse calling a production at the end of the input.
LoopArm_no_eof(peeked) ==
    IF peeked = None THEN "operation_definition" ELSE TopLevelArm(peeked[1])

\* What one turn of the loop of Parser::parse does with peek_data().
LoopArm(peeked) == IF peeked = None THEN "break" ELSE TopLevelArm(peeked[1])

\* The node a production opens for itself.
ProductionKind(fn) ==
    CASE fn = "fragment_definition" -> "FRAGMENT_DEFINITION"
      [] fn = "directive_definition" -> "DIRECTIVE_DEFINITION"
      [] fn = "schema_definition" -> "SCHEMA_DEFINITION"
      [] fn = "scalar_type_definition" -> "SCALAR_TYPE_DEFINITION"
      [] fn = "object_type_definition" -> "OBJECT_TYPE_DEFINITION"
      [] fn = "interface_type_definition" -> "INTERFACE_TYPE_DEFINITION"
      [] fn = "union_type_definition" -> "UNION_TYPE_DEFINITION"
      [] fn = "enum_type_definition" -> "ENUM_TYPE_DEFINITION"
      [] fn = "input_object_type_definition" -> "INPUT_OBJECT_TYPE_DEFINITION"
      [] OTHER -> "OPERATION_DEFINITION"

\* ------------------------------------------------------------------ state
VARIABLES
    source,    \* the lexer's results for the input, in source order
    pc,        \* position of the caller / of Parser::parse
    parser,    \* the Parser: tokens, builder, errors
    guards,    \* live NodeGuards, each named by the start_node call it is from
    nstart,    \* number of start_node calls so far
    fn,        \* the production the loop has dispatched to
    own,       \* the guard of the running production's own node (_guard)
    held,      \* a token a production has popped and not yet recorded
    consumed,  \* number of tokens the running production has consumed
    iters,     \* number of productions the loop has dispatched
    loaded,    \* history: the errors Parser::new has loaded
    pushed,    \* history: the arguments of the push_err calls, in call order
    tree,      \* the SyntaxTree returned by parse, None before
    ast,       \* the typed-view layer: a view type, a node, the cast, the rendering
    peeked     \* the last peek_n / peek_data_n call tried on its own, None before

vars == <<source, pc, parser, guards, nstart, fn, own, held, consumed, iters,
          loaded, pushed, tree, ast, peeked>>

\* Rc::strong_count of the builder: the parser's and one per live guard.
StrongCount == 1 + Cardinality(guards)

NoParser == [tokens |-> <<>>, builder |-> SyntaxTreeBuilder_new, errors |-> <<>>]

\* No typed view has been asked for.
NoAst == [pc |-> "none"]

\* The state before Parser::new, for an input among the given lexer results.
InitFrom(inputs) ==
    /\ source \in inputs
    /\ pc = "new"
    /\ parser = NoParser
    /\ guards = {}
    /\ nstart = 0
    /\ fn = "none"
    /\ own = 0
    /\ held = None
    /\ consumed = 0
    /\ iters = 0
    /\ loaded = <<>>
    /\ pushed = <<>>
    /\ tree = None
    /\ ast = NoAst
    /\ peeked = None

Init == InitFrom(LexResults(MaxLen))

\* ---------------------------------------------------------------- actions
\* let parser = Parser::new(input);
New ==
    /\ pc = "new"
    /\ parser' = Parser_new(source)
    /\ loaded' = parser'.errors
    /\ pc' = "parse"
    /\ UNCHANGED <<source, guards, nstart, fn, own, held, consumed, iters, pushed, tree, ast,
                   peeked>>

\* parse: let _ = self.start_node(SyntaxKind::DOCUMENT); the guard is a
\* temporary and is dropped at once.
ParseStartNode_temporary ==
    /\ pc = "parse"
    /\ parser' = NodeGuard_drop(Parser_start_node(parser, "DOCUMENT"))
    /\ nstart' = nstart + 1
    /\ pc' = "loop"
    /\ UNCHANGED <<source, guards, fn, own, held, consumed, iters, loaded, pushed, tree, ast,
                   peeked>>

\* parse: let guard = self.start_node(SyntaxKind::DOCUMENT);
ParseStartNode ==
    /\ pc = "parse"
    /\ parser' = Parser_start_node(parser, "DOCUMENT")
    /\ nstart' = nstart + 1
    /\ guards' = guards \cup {nstart'}
    /\ pc' = "loop"
    /\ UNCHANGED <<source, fn, own, held, consumed, iters, loaded, pushed, tree, ast, peeked>>

\* parse: a turn of the loop that calls a production.
LoopDispatch ==
    /\ pc = "loop"
    /\ LoopArm(Parser_peek_data(parser)) # "break"
    /\ fn' = LoopArm(Parser_peek_data(parser))
    /\ pc' = "enter"
    /\ consumed' = 0
    /\ iters' = iters + 1
    /\ UNCHANGED <<source, parser, guards, nstart, own, held, loaded, pushed, tree, ast,
                   peeked>>

\* parse: a turn of the loop that breaks.
LoopBreak ==
    /\ pc = "loop"
    /\ LoopArm(Parser_peek_data(parser)) = "break"
    /\ pc' = "finish_node"
    /\ UNCHANGED <<source, parser, guards, nstart, fn, own, held, consumed, iters,
                   loaded, pushed, tree, ast, peeked>>

\* parse without guard.finish_node(): the guard lives to the end of parse.
ParseFinishNode_omitted ==
    /\ pc = "finish_node"
    /\ pc' = "finish"
    /\ UNCHANGED <<source, parser, guards, nstart, fn, own, held, consumed, iters,
                   loaded, pushed, tree, ast, peeked>>

\* parse: guard.finish_node();
ParseFinishNode ==
    /\ pc = "finish_node"
    /\ parser' = NodeGuard_finish_node(parser)
    /\ guards' = guards \ {1}
    /\ pc' = "finish"
    /\ UNCHANGED <<source, nstart, fn, own, held, consumed, iters, loaded, pushed, tree, ast,
                   peeked>>

\* parse that finishes the builder before guard.finish_node().
ParseFinish_before_close ==
    /\ pc = "finish_node"
    /\ tree' = Some(Builder_finish(parser.builder, parser.errors))
    /\ pc' = "done"
    /\ UNCHANGED <<source, parser, guards, nstart, fn, own, held, consumed, iters,
                   loaded, pushed, ast, peeked>>

\* parse: Rc::try_unwrap(self.builder).expect(..).into_inner().finish(self.errors)
ParseFinish ==
    /\ pc = "finish"
    /\ IF StrongCount = 1
         THEN /\ tree' = Some(Builder_finish(parser.builder, parser.errors))
              /\ pc' = "done"
         ELSE /\ tree' = tree
              /\ pc' = "panic"
    /\ UNCHANGED <<source, parser, guards, nstart, fn, own, held, consumed, iters,
                   loaded, pushed, ast, peeked>>

\* ------------------------------------------------- grammar productions
\* A production is called with its leader on top of the token stack.  It
\* opens its node and keeps the guard to the end of its body, uses the
\* driver's primitives, and returns after it has consumed at least its leader;
\* the guards of the nodes it opened below its own are released before.

\* fn(parser): let _guard = parser.start_node(KIND);
ProdEnter ==
    /\ pc = "enter"
    /\ parser' = Parser_start_node(parser, ProductionKind(fn))
    /\ nstart' = nstart + 1
    /\ guards' = guards \cup {nstart'}
    /\ own' = nstart'
    /\ pc' = "prod"
    /\ UNCHANGED <<source, fn, held, consumed, iters, loaded, pushed, tree, ast, peeked>>

\* parser.start_node(kind) for a node below the production's own.
ProdStartNode ==
    /\ pc = "prod"
    /\ held = None
    /\ nstart - iters - 1 < MaxInner
    /\ \E kind \in InnerKinds : parser' = Parser_start_node(parser, kind)
    /\ nstart' = nstart + 1
    /\ guards' = guards \cup {nstart'}
    /\ UNCHANGED <<source, pc, fn, own, held, consumed, iters, loaded, pushed, tree, ast,
                   peeked>>

\* parser.bump(kind), called with a token left.
ProdBump ==
    /\ pc = "prod"
    /\ held = None
    /\ parser.tokens # <<>>
    /\ \E kind \in TokenKinds : parser' = Parser_bump(parser, kind)
    /\ consumed' = consumed + 1
    /\ UNCHANGED <<source, pc, guards, nstart, fn, own, held, iters, loaded, pushed, tree,
                   ast, peeked>>

\* let token = parser.pop(), called with a token left.
ProdPop ==
    /\ pc = "prod"
    /\ held = None
    /\ parser.tokens # <<>>
    /\ held' = Some(Last(parser.tokens))
    /\ parser' = Parser_pop(parser)
    /\ consumed' = consumed + 1
    /\ UNCHANGED <<source, pc, guards, nstart, fn, own, iters, loaded, pushed, tree, ast,
                   peeked>>

\* parser.push_ast(kind, token) with the token popped before.
ProdPushAst ==
    /\ pc = "prod"
    /\ held # None
    /\ \E kind \in TokenKinds : parser' = Parser_push_ast(parser, kind, held[1])
    /\ held' = None
    /\ UNCHANGED <<source, pc, guards, nstart, fn, own, consumed, iters, loaded, pushed, tree,
                   ast, peeked>>

\* parser.push_err(err)
ProdPushErr ==
    /\ pc = "prod"
    /\ Len(pushed) < MaxErrs
    /\ LET err == SynErr(Len(pushed) + 1)
       IN /\ parser' = Parser_push_err(parser, err)
          /\ pushed' = Append(pushed, err)
    /\ UNCHANGED <<source, pc, guards, nstart, fn, own, held, consumed, iters, loaded, tree,
                   ast, peeked>>

\* parser.peek(), peek_data(), peek_n(n) or peek_data_n(n) for a token that is
\* there: the receivers are `&self`, the call returns a value and leaves the
\* parser as it is.
ProdPeek ==
    /\ pc = "prod"
    /\ \/ /\ parser.tokens = <<>>
          /\ Parser_peek(parser) = None
          /\ Parser_peek_data(parser) = None
       \/ \E n \in 1..Len(parser.tokens), checks \in BOOLEAN :
             /\ Parser_peek_n(parser, n, checks) # Panic
             /\ Parser_peek_data_n(parser, n, checks) # Panic
    /\ UNCHANGED vars

\* guard.finish_node() on the guard of a node below the production's own.
ProdFinishNode ==
    /\ pc = "prod"
    /\ held = None
    /\ \E g \in guards \ {1, own} :
          /\ parser' = NodeGuard_finish_node(parser)
          /\ guards' = guards \ {g}
    /\ UNCHANGED <<source, pc, nstart, fn, own, held, consumed, iters, loaded, pushed, tree,
                   ast, peeked>>

\* The guard of a node below the production's own leaves its scope.
ProdScopeExit ==
    /\ pc = "prod"
    /\ held = None
    /\ \E g \in guards \ {1, own} :
          /\ parser' = NodeGuard_drop(parser)
          /\ guards' = guards \ {g}
    /\ UNCHANGED <<source, pc, nstart, fn, own, held, consumed, iters, loaded, pushed, tree,
                   ast, peeked>>

\* The production returns to the loop of parse: _guard leaves its scope.
ProdReturn ==
    /\ pc = "prod"
    /\ held = None
    /\ guards = {1, own}
    /\ consumed >= 1
    /\ parser' = NodeGuard_drop(parser)
    /\ guards' = guards \ {own}
    /\ pc' = "loop"
    /\ UNCHANGED <<source, nstart, fn, own, held, consumed, iters, loaded, pushed, tree, ast,
                   peeked>>

Next ==
    \/ New
    \/ ParseStartNode
    \/ LoopDispatch
    \/ LoopBreak
    \/ ParseFinishNode
    \/ ParseFinish
    \/ ProdEnter
    \/ ProdStartNode
    \/ ProdBump
    \/ ProdPop
    \/ ProdPushAst
    \/ ProdPushErr
    \/ ProdPeek
    \/ ProdFinishNode
    \/ ProdScopeExit
    \/ ProdReturn

Spec == Init /\ [][Next]_vars

\* The scheduling of a run: the program keeps executing until parse returns.
FairSpec == Spec /\ WF_vars(Next)

\* The tokens of the inputs that exercise the dispatch of parse: every text
\* the match names, and some it does not.
DispatchTokens ==
    { Tok("IDENT", t) : t \in { "fragment", "directive", "schema", "scalar",
                                "type", "interface", "union", "enum", "input",
                                "query", "mutation", "subscription", "extend",
                                "x" } }
      \cup { Tok("PUNCT", "{"), Tok("WHITESPACE", " ") }

\* A description: the string that may precede a type system definition.
Description == Tok("STRING", "\"Description\"")

\* One token, or a description and one token.
DispatchInputs ==
    { <<t>> : t \in DispatchTokens } \cup { <<Description, t>> : t \in DispatchTokens }

\* Parser::new and parse on the inputs that exercise the dispatch.
DispatchSpec == InitFrom(DispatchInputs) /\ [][Next]_vars

\* ------------------------------------------------------------ observations
\* The builder's events so far.
Events == parser.builder.events

IsTokenEv(e) == e.ev = "token"

\* The texts of the tokens recorded by a sequence of builder events.
TokenTexts(evs) ==
    LET toks == SelectSeq(evs, IsTokenEv)
    IN [i \in 1..Len(toks) |-> toks[i].data]

\* The texts of the tokens the lexer produced, in source order.
LexedTexts ==
    LET toks == SelectSeq(source, IsOk)
    IN [i \in 1..Len(toks) |-> toks[i].data]

NumEv(evs, name) == Cardinality({i \in 1..Len(evs) : evs[i].ev = name})

\* Nodes open after the first i events.
DepthAfter(evs, i) ==
    NumEv(SubSeq(evs, 1, i), "start_node") - NumEv(SubSeq(evs, 1, i), "finish_node")

\* Tokens taken from the stack since Parser::new.
TokensConsumed == Len(SelectSeq(source, IsOk)) - Len(parser.tokens)

IsSyn(e) == e.tag = "Syn"

IsPrefix(s, t) == Len(s) <= Len(t) /\ SubSeq(t, 1, Len(s)) = s

\* The texts the claims call recognised top-level leaders.
Leaders ==
    { "fragment", "directive", "schema", "scalar", "type", "interface", "union",
      "enum", "input", "query", "mutation", "subscription", "{" }

\* ------------------------------------------------------------ lookahead
\* A parser right after Parser::new, for the lookahead calls tried on their
\* own.
PeekInit ==
    /\ source \in LexResults(MaxLen)
    /\ pc = "peek"
    /\ parser = Parser_new(source)
    /\ guards = {}
    /\ nstart = 0
    /\ fn = "none"
    /\ own = 0
    /\ held = None
    /\ consumed = 0
    /\ iters = 0
    /\ loaded = parser.errors
    /\ pushed = <<>>
    /\ tree = None
    /\ ast = NoAst
    /\ peeked = None

\* parser.peek_n(n) and parser.peek_data_n(n), for n from 0 to two past the
\* length of the stack, in a build with or without overflow checks.
PeekN ==
    /\ pc = "peek"
    /\ \E n \in 0..(Len(parser.tokens) + 2), checks \in BOOLEAN :
          peeked' = Some([n |-> n, checks |-> checks,
                          kind |-> Parser_peek_n(parser, n, checks),
                          data |-> Parser_peek_data_n(parser, n, checks)])
    /\ UNCHANGED <<source, pc, parser, guards, nstart, fn, own, held, consumed, iters,
                   loaded, pushed, tree, ast>>

\* parser.pop() between lookahead calls.
PeekPop ==
    /\ pc = "peek"
    /\ parser.tokens # <<>>
    /\ parser' = Parser_pop(parser)
    /\ peeked' = None
    /\ UNCHANGED <<source, pc, guards, nstart, fn, own, held, consumed, iters,
                   loaded, pushed, tree, ast>>

PeekNext == PeekN \/ PeekPop

\* Lookahead at every distance on every stack.
PeekSpec == PeekInit /\ [][PeekNext]_vars

\* ------------------------------------------------------------- deep nesting
\* The default of the limit on simultaneously open nodes.
RecursionLimit == 500

\* An input that opens with a selection set, after Parser::new, the
\* start_node of DOCUMENT and the entry of operation_definition.
NestInit ==
    /\ source = <<Tok("PUNCT", "{")>>
    /\ pc = "prod"
    /\ parser = Parser_start_node(Parser_start_node(Parser_new(source), "DOCUMENT"),
                                  ProductionKind("operation_definition"))
    /\ guards = {1, 2}
    /\ nstart = 2
    /\ fn = "operation_definition"
    /\ own = 2
    /\ held = None
    /\ consumed = 0
    /\ iters = 1
    /\ loaded = <<>>
    /\ pushed = <<>>
    /\ tree = None
    /\ ast = NoAst
    /\ peeked = None

\* parser.start_node(kind) in a production that recurses into a nested
\* construct, one node per level; followed as far as one node past the limit.
NestStartNode ==
    /\ pc = "prod"
    /\ Cardinality(guards) <= RecursionLimit
    /\ parser' = Parser_start_node(parser, "SELECTION_SET")
    /\ nstart' = nstart + 1
    /\ guards' = guards \cup {nstart'}
    /\ UNCHANGED <<source, pc, fn, own, held, consumed, iters, loaded, pushed, tree, ast,
                   peeked>>

\* A production nesting as deep as its input does.
NestSpec == NestInit /\ [][NestStartNode]_vars

\* ----------------------------------------------------------------- guards
\* The kinds of the nodes opened in a run of guards.
GuardKinds == {"FIELD", "ARGUMENTS"}

\* A parser with a fresh builder and no guard handed out.
GuardInit ==
    /\ source = <<>>
    /\ pc = "guards"
    /\ parser = Parser_new(source)
    /\ guards = {}
    /\ nstart = 0
    /\ fn = "none"
    /\ own = 0
    /\ held = None
    /\ consumed = 0
    /\ iters = 0
    /\ loaded = <<>>
    /\ pushed = <<>>
    /\ tree = None
    /\ ast = NoAst
    /\ peeked = None

\* let guard = parser.start_node(kind);
GuardStartNode ==
    /\ pc = "guards"
    /\ nstart < MaxStarts
    /\ \E kind \in GuardKinds : parser' = Parser_start_node(parser, kind)
    /\ nstart' = nstart + 1
    /\ guards' = guards \cup {nstart'}
    /\ UNCHANGED <<source, pc, fn, own, held, consumed, iters, loaded, pushed, tree, ast,
                   peeked>>

\* Any live guard is released, by finish_node() or by leaving its scope.
GuardRelease ==
    /\ pc = "guards"
    /\ \E g \in guards :
          /\ parser' = NodeGuard_finish_node(parser)
          /\ guards' = guards \ {g}
    /\ UNCHANGED <<source, pc, nstart, fn, own, held, consumed, iters, loaded, pushed, tree,
                   ast, peeked>>

GuardNext == GuardStartNode \/ GuardRelease

\* start_node calls and guard releases in any order.
GuardSpec == GuardInit /\ [][GuardNext]_vars

\* ------------------------------------------------------------ typed views
\* The nonterminal tag each concrete view accepts: the kind its can_cast
\* compares with.
ConcreteTag ==
    [ Name |-> "NAME", Document |-> "DOCUMENT",
      OperationDefinition |-> "OPERATION_DEFINITION",
      FragmentDefinition |-> "FRAGMENT_DEFINITION", OperationType |-> "OPERATION_TYPE",
      VariableDefinitions |-> "VARIABLE_DEFINITIONS", Directives |-> "DIRECTIVES",
      SelectionSet |-> "SELECTION_SET", Field |-> "FIELD",
      FragmentSpread |-> "FRAGMENT_SPREAD", InlineFragment |-> "INLINE_FRAGMENT",
      Alias |-> "ALIAS", Arguments |-> "ARGUMENTS", Argument |-> "ARGUMENT",
      FragmentName |-> "FRAGMENT_NAME", TypeCondition |-> "TYPE_CONDITION",
      NamedType |-> "NAMED_TYPE", Variable |-> "VARIABLE",
      StringValue |-> "STRING_VALUE", FloatValue |-> "FLOAT_VALUE",
      IntValue |-> "INT_VALUE", BooleanValue |-> "BOOLEAN_VALUE",
      NullValue |-> "NULL_VALUE", EnumValue |-> "ENUM_VALUE",
      ListValue |-> "LIST_VALUE", ObjectValue |-> "OBJECT_VALUE",
      ObjectField |-> "OBJECT_FIELD", VariableDefinition |-> "VARIABLE_DEFINITION",
      DefaultValue |-> "DEFAULT_VALUE", ListType |-> "LIST_TYPE",
      NonNullType |-> "NON_NULL_TYPE", Directive |-> "DIRECTIVE",
      SchemaDefinition |-> "SCHEMA_DEFINITION",
      DirectiveDefinition |-> "DIRECTIVE_DEFINITION",
      SchemaExtension |-> "SCHEMA_EXTENSION",
      OperationTypeDefinition |-> "OPERATION_TYPE_DEFINITION",
      Description |-> "DESCRIPTION", ScalarTypeDefinition |-> "SCALAR_TYPE_DEFINITION",
      ObjectTypeDefinition |-> "OBJECT_TYPE_DEFINITION",
      InterfaceTypeDefinition |-> "INTERFACE_TYPE_DEFINITION",
      UnionTypeDefinition |-> "UNION_TYPE_DEFINITION",
      EnumTypeDefinition |-> "ENUM_TYPE_DEFINITION",
      InputObjectTypeDefinition |-> "INPUT_OBJECT_TYPE_DEFINITION",
      ScalarTypeExtension |-> "SCALAR_TYPE_EXTENSION",
      ObjectTypeExtension |-> "OBJECT_TYPE_EXTENSION",
      InterfaceTypeExtension |-> "INTERFACE_TYPE_EXTENSION",
      UnionTypeExtension |-> "UNION_TYPE_EXTENSION",
      EnumTypeExtension |-> "ENUM_TYPE_EXTENSION",
      InputObjectTypeExtension |-> "INPUT_OBJECT_TYPE_EXTENSION",
      ImplementsInterfaces |-> "IMPLEMENTS_INTERFACES",
      FieldsDefinition |-> "FIELDS_DEFINITION", FieldDefinition |-> "FIELD_DEFINITION",
      ArgumentsDefinition |-> "ARGUMENTS_DEFINITION",
      InputValueDefinition |-> "INPUT_VALUE_DEFINITION",
      UnionMemberTypes |-> "UNION_MEMBER_TYPES",
      EnumValuesDefinition |-> "ENUM_VALUES_DEFINITION",
      EnumValueDefinition |-> "ENUM_VALUE_DEFINITION",
      InputFieldsDefinition |-> "INPUT_FIELDS_DEFINITION",
      DirectiveLocations |-> "DIRECTIVE_LOCATIONS",
      DirectiveLocation |-> "DIRECTIVE_LOCATION",
      ExecutableDirectiveLocation |-> "EXECUTABLE_DIRECTIVE_LOCATION",
      TypeSystemDirectiveLocation |-> "TYPE_SYSTEM_DIRECTIVE_LOCATION" ]

ConcreteViews == DOMAIN ConcreteTag

\* The variants each sum view is declared with.
SumVariants ==
    [ Definition |-> { "ExecutableDefinition", "TypeSystemDefinition", "TypeSystemExtension" },
      ExecutableDefinition |-> { "OperationDefinition", "FragmentDefinition" },
      TypeSystemDefinition |-> { "SchemaDefinition", "TypeDefinition", "DirectiveDefinition" },
      TypeSystemExtension |-> { "SchemaExtension", "TypeExtension" },
      Selection |-> { "Field", "FragmentSpread", "InlineFragment" },
      Value |-> { "Variable", "StringValue", "FloatValue", "IntValue", "BooleanValue",
            "NullValue", "EnumValue", "ListValue", "ObjectValue" },
      Type |-> { "NamedType", "ListType", "NonNullType" },
      TypeDefinition |-> { "ScalarTypeDefinition", "ObjectTypeDefinition",
            "InterfaceTypeDefinition", "UnionTypeDefinition", "EnumTypeDefinition",
            "InputObjectTypeDefinition" },
      TypeExtension |-> { "ScalarTypeExtension", "ObjectTypeExtension", "InterfaceTypeExtension",
            "UnionTypeExtension", "EnumTypeExtension", "InputObjectTypeExtension" } ]

SumViews == DOMAIN SumVariants

Views == ConcreteViews \cup SumViews

\* The kinds the can_cast of each sum view matches.
SumCanCast ==
    [ Definition |-> { "EXECUTABLE_DEFINITION", "TYPE_SYSTEM_DEFINITION",
            "TYPE_SYSTEM_EXTENSION" },
      ExecutableDefinition |-> { "OPERATION_DEFINITION", "FRAGMENT_DEFINITION" },
      TypeSystemDefinition |-> { "SCHEMA_DEFINITION", "TYPE_DEFINITION", "DIRECTIVE_DEFINITION" },
      TypeSystemExtension |-> { "SCHEMA_EXTENSION", "TYPE_EXTENSION" },
      Selection |-> { "FIELD", "FRAGMENT_SPREAD", "INLINE_FRAGMENT" },
      Value |-> { "VARIABLE", "STRING_VALUE", "FLOAT_VALUE", "INT_VALUE",
            "BOOLEAN_VALUE", "NULL_VALUE", "ENUM_VALUE", "LIST_VALUE",
            "OBJECT_VALUE" },
      Type |-> { "NAMED_TYPE", "LIST_TYPE", "NON_NULL_TYPE" },
      TypeDefinition |-> { "SCALAR_TYPE_DEFINITION", "OBJECT_TYPE_DEFINITION",
            "INTERFACE_TYPE_DEFINITION", "UNION_TYPE_DEFINITION",
            "ENUM_TYPE_DEFINITION", "INPUT_OBJECT_TYPE_DEFINITION" },
      TypeExtension |-> { "SCALAR_TYPE_EXTENSION", "OBJECT_TYPE_EXTENSION",
            "INTERFACE_TYPE_EXTENSION", "UNION_TYPE_EXTENSION",
            "ENUM_TYPE_EXTENSION", "INPUT_OBJECT_TYPE_EXTENSION" } ]

\* The arms of the match in the cast of each sum view: the kind matched and
\* the variant built.
SumCastArms ==
    [ Definition |-> { <<"EXECUTABLE_DEFINITION", "ExecutableDefinition">>,
            <<"TYPE_SYSTEM_DEFINITION", "TypeSystemDefinition">>,
            <<"TYPE_SYSTEM_EXTENSION", "TypeSystemExtension">> },
      ExecutableDefinition |-> { <<"OPERATION_DEFINITION", "OperationDefinition">>,
            <<"FRAGMENT_DEFINITION", "FragmentDefinition">> },
      TypeSystemDefinition |-> { <<"SCHEMA_DEFINITION", "SchemaDefinition">>,
            <<"TYPE_DEFINITION", "TypeDefinition">>,
            <<"DIRECTIVE_DEFINITION", "DirectiveDefinition">> },
      TypeSystemExtension |-> { <<"SCHEMA_EXTENSION", "SchemaExtension">>,
            <<"TYPE_EXTENSION", "TypeExtension">> },
      Selection |-> { <<"FIELD", "Field">>, <<"FRAGMENT_SPREAD", "FragmentSpread">>,
            <<"INLINE_FRAGMENT", "InlineFragment">> },
      Value |-> { <<"VARIABLE", "Variable">>, <<"STRING_VALUE", "StringValue">>,
            <<"FLOAT_VALUE", "FloatValue">>, <<"INT_VALUE", "IntValue">>,
            <<"BOOLEAN_VALUE", "BooleanValue">>, <<"NULL_VALUE", "NullValue">>,
            <<"ENUM_VALUE", "EnumValue">>, <<"LIST_VALUE", "ListValue">>,
            <<"OBJECT_VALUE", "ObjectValue">> },
      Type |-> { <<"NAMED_TYPE", "NamedType">>, <<"LIST_TYPE", "ListType">>,
            <<"NON_NULL_TYPE", "NonNullType">> },
      TypeDefinition |-> { <<"SCALAR_TYPE_DEFINITION", "ScalarTypeDefinition">>,
            <<"OBJECT_TYPE_DEFINITION", "ObjectTypeDefinition">>,
            <<"INTERFACE_TYPE_DEFINITION", "InterfaceTypeDefinition">>,
            <<"UNION_TYPE_DEFINITION", "UnionTypeDefinition">>,
            <<"ENUM_TYPE_DEFINITION", "EnumTypeDefinition">>,
            <<"INPUT_OBJECT_TYPE_DEFINITION", "InputObjectTypeDefinition">> },
      TypeExtension |-> { <<"SCALAR_TYPE_EXTENSION", "ScalarTypeExtension">>,
            <<"OBJECT_TYPE_EXTENSION", "ObjectTypeExtension">>,
            <<"INTERFACE_TYPE_EXTENSION", "InterfaceTypeExtension">>,
            <<"UNION_TYPE_EXTENSION", "UnionTypeExtension">>,
            <<"ENUM_TYPE_EXTENSION", "EnumTypeExtension">>,
            <<"INPUT_OBJECT_TYPE_EXTENSION", "InputObjectTypeExtension">> } ]

\* The syntax kind named after each sum nonterminal.
SumKind ==
    [ Definition |-> "DEFINITION", ExecutableDefinition |-> "EXECUTABLE_DEFINITION",
      TypeSystemDefinition |-> "TYPE_SYSTEM_DEFINITION",
      TypeSystemExtension |-> "TYPE_SYSTEM_EXTENSION", Selection |-> "SELECTION",
      Value |-> "VALUE", Type |-> "TYPE", TypeDefinition |-> "TYPE_DEFINITION",
      TypeExtension |-> "TYPE_EXTENSION" ]

\* Every kind a view names, and two kinds that no view accepts.
NodeKinds ==
    { ConcreteTag[v] : v \in ConcreteViews }
        \cup UNION { SumCanCast[v] : v \in SumViews }
        \cup { SumKind[v] : v \in SumViews }
        \cup { "ERROR", "WHITESPACE" }

\* A syntax node: its kind and the builder events of its subtree.
SyntaxNode(kind, events) == [kind |-> kind, events |-> events]

\* Subtrees for the nodes the views are tried on: empty, one terminal, and
\* terminals at two depths.
Subtrees ==
    { <<>>,
      <<TokenEv("IDENT", "a")>>,
      <<TokenEv("PUNCT", "{"), TokenEv("WHITESPACE", " "), StartEv("NAME"),
        TokenEv("IDENT", "a"), FinishEv, TokenEv("PUNCT", "}")>> }

Nodes == { SyntaxNode(k, evs) : k \in NodeKinds, evs \in Subtrees }

\* AstNode::can_cast of the view.
AstNode_can_cast(view, kind) ==
    IF view \in ConcreteViews THEN kind = ConcreteTag[view]
    ELSE kind \in SumCanCast[view]

\* The value of a view: the view type, the variant of a sum ("" for a
\* concrete view) and the node it wraps.
Typed(view, variant, syntax) == [view |-> view, variant |-> variant, syntax |-> syntax]

\* A cast that wraps the node whatever its kind.
AstNode_cast_unchecked(view, syntax) == Some(Typed(view, "", syntax))

\* AstNode::cast of the view.
AstNode_cast(view, syntax) ==
    IF view \in ConcreteViews
    THEN IF AstNode_can_cast(view, syntax.kind)
         THEN Some(Typed(view, "", syntax)) ELSE None
    ELSE LET arms == { a \in SumCastArms[view] : a[1] = syntax.kind }
         IN IF arms = {} THEN None
            ELSE Some(Typed(view, (CHOOSE a \in arms : TRUE)[2], syntax))

\* AstNode::syntax of a view value: its own node, or the node of its variant.
AstNode_syntax(typed) == typed.syntax

\* The rendering of a syntax node: the texts of the terminals of its subtree,
\* in order.
SyntaxNode_fmt(node) == TokenTexts(node.events)

\* A rendering that puts the kind of the node before its text.
View_fmt_debug(typed) == <<AstNode_syntax(typed).kind>> \o SyntaxNode_fmt(AstNode_syntax(typed))

\* Display::fmt of a view value.
View_fmt(typed) == SyntaxNode_fmt(AstNode_syntax(typed))

\* impl From<V> for S: the value of the sum with the variant's value inside.
View_from(sum, variant, typed) == Typed(sum, variant, AstNode_syntax(typed))

\* A view type and a node to try it on; nothing cast or rendered yet.
ViewInit ==
    /\ ast \in { [pc |-> "cast", view |-> v, node |-> n, cast |-> None, text |-> None] :
                   v \in Views, n \in Nodes }
    /\ source = <<>>
    /\ pc = "view"
    /\ parser = NoParser
    /\ guards = {}
    /\ nstart = 0
    /\ fn = "none"
    /\ own = 0
    /\ held = None
    /\ consumed = 0
    /\ iters = 0
    /\ loaded = <<>>
    /\ pushed = <<>>
    /\ tree = None
    /\ peeked = None

\* V::cast(node).
ViewCast ==
    /\ ast.pc = "cast"
    /\ ast' = [ast EXCEPT !.pc = "fmt", !.cast = AstNode_cast(ast.view, ast.node)]
    /\ UNCHANGED <<source, pc, parser, guards, nstart, fn, own, held, consumed, iters,
                   loaded, pushed, tree, peeked>>

\* Rendering the view value the cast returned.
ViewFmt ==
    /\ ast.pc = "fmt"
    /\ ast.cast # None
    /\ ast' = [ast EXCEPT !.pc = "done", !.text = Some(View_fmt(ast.cast[1]))]
    /\ UNCHANGED <<source, pc, parser, guards, nstart, fn, own, held, consumed, iters,
                   loaded, pushed, tree, peeked>>

ViewNext == ViewCast \/ ViewFmt

\* Casting and rendering, for every view type and node.
ViewSpec == ViewInit /\ [][ViewNext]_vars

\* ------------------------------------------------------- views of a tree
\* The elements of a set of numbers, in increasing order.
RECURSIVE Ascending(_)
Ascending(S) ==
    IF S = {} THEN <<>>
    ELSE LET m == CHOOSE x \in S : \A y \in S : x <= y
         IN <<m>> \o Ascending(S \ {m})

\* The event that closes the node opened by event i of evs (the last event
\* when nothing closes it).
SubtreeEnd(evs, i) ==
    LET closes == { j \in i..Len(evs) : DepthAfter(evs, j) = DepthAfter(evs, i) - 1 }
    IN IF closes = {} THEN Len(evs) + 1
       ELSE CHOOSE j \in closes : \A k \in closes : j <= k

\* The node opened by event i of evs, with the events strictly inside it.
NodeAt(evs, i) == SyntaxNode(evs[i].kind, SubSeq(evs, i + 1, SubtreeEnd(evs, i) - 1))

\* SyntaxNode::children: the nodes directly under the node, in order.
SyntaxNode_children(node) ==
    LET evs == node.events
        starts == Ascending({ i \in 1..Len(evs) :
                      evs[i].ev = "start_node" /\ DepthAfter(evs, i) = 1 })
    IN [n \in 1..Len(starts) |-> NodeAt(evs, starts[n])]

\* support::children for a view type: the children the view's cast accepts,
\* each as a value of the view.
RECURSIVE support_children(_, _)
support_children(view, nodes) ==
    IF nodes = <<>> THEN <<>>
    ELSE LET casted == AstNode_cast(view, nodes[1])
         IN (IF casted = None THEN <<>> ELSE <<casted[1]>>)
                \o support_children(view, Tail(nodes))

\* SyntaxTree::document: the root of the tree as a Document.
SyntaxTree_document(t) == AstNode_cast("Document", NodeAt(t.root, 1))[1]

\* Document::definitions.
Document_definitions(doc) ==
    support_children("Definition", SyntaxNode_children(AstNode_syntax(doc)))

\* ------------------------------------------------------------------ claims
\* C1: after parse, the texts of the tokens recorded in the tree, read left to
\* right, are exactly the texts of the tokens the lexer produced: no token is
\* left out, also when the loop stops at a token it does not recognise.
C1_Lossless ==
    pc = "done" => TokenTexts(tree[1].root) = LexedTexts

\* C2: the tree has exactly one root, of kind DOCUMENT: start_node(DOCUMENT) is
\* the first builder event, the finish_node closing it is the last one, and
\* every other event lies between the two.
C2_OneDocumentRoot ==
    /\ Events # <<>> => Events[1] = StartEv("DOCUMENT")
    /\ pc = "done" =>
          LET evs == tree[1].root
          IN /\ Len(evs) >= 2
             /\ evs[1] = StartEv("DOCUMENT")
             /\ evs[Len(evs)] = FinishEv
             /\ \A i \in 1..(Len(evs) - 1) : DepthAfter(evs, i) >= 1
             /\ DepthAfter(evs, Len(evs)) = 0

C2_Witness ==
    /\ pc = "done"
    /\ NumEv(tree[1].root, "start_node") >= 3
    /\ NumEv(tree[1].root, "token") >= 2

\* A step that releases guards releases one and appends one finish_node; a
\* step that finishes the builder leaves the two counts equal.
C3_ReleaseClosesOnce ==
    /\ (guards' # guards /\ guards' \subseteq guards) =>
          /\ Cardinality(guards) - Cardinality(guards') = 1
          /\ Events' = Append(Events, FinishEv)
    /\ pc' = "done" =>
          NumEv(tree'[1].root, "finish_node") = NumEv(tree'[1].root, "start_node")

\* C3: releasing a guard, by finish_node() or by leaving its scope, releases
\* one guard and appends exactly one finish_node event, and when the builder
\* is finished there are as many finish_node events as start_node events.
C3_GuardClosesExactlyOnce == [][C3_ReleaseClosesOnce]_vars

C3_Witness ==
    /\ pc = "done"
    /\ NumEv(tree[1].root, "start_node") >= 3
    /\ NumEv(tree[1].root, "finish_node") = NumEv(tree[1].root, "start_node")

\* The dispatches of the loop against the tokens consumed so far.
C4_LoopBound ==
    /\ iters <= Len(SelectSeq(source, IsOk))
    /\ pc \in {"loop", "finish_node", "finish", "done"} => iters <= TokensConsumed
    /\ pc \in {"enter", "prod"} => iters <= TokensConsumed + 1

C6_LexErrorsInSourceOrder ==
    pc = "done" => SelectSeq(tree[1].errors, IsErr) = SelectSeq(source, IsErr)

\* The errors are what Parser::new loaded followed by what was pushed.
C7_ErrorsInv ==
    /\ pc # "new" => parser.errors = loaded \o pushed
    /\ \A i, j \in 1..Len(parser.errors) :
          (IsSyn(parser.errors[i]) /\ IsErr(parser.errors[j])) => j < i
    /\ pc = "done" => tree[1].errors = loaded \o pushed

\* C7: the errors are the loaded lexical errors followed by the syntactic
\* errors in the order of the push_err calls; every lexical error precedes
\* every syntactic one, and no step removes or reorders an error.
C7_ErrorsAccumulate ==
    []C7_ErrorsInv /\ [][pc # "new" => IsPrefix(parser.errors, parser'.errors)]_vars

C7_Witness ==
    /\ pc = "done"
    /\ Len(loaded) >= 1
    /\ Len(pushed) >= 2
    /\ tree[1].errors = loaded \o pushed

\* C8: after Parser::new the top of the token stack is the first token of the
\* input, and the token texts that have reached the builder are always a
\* prefix of the lexer's token sequence.
C8_TokensInSourceOrder ==
    /\ (pc = "parse" /\ SelectSeq(source, IsOk) # <<>>) =>
          (parser.tokens # <<>> /\ Last(parser.tokens) = SelectSeq(source, IsOk)[1])
    /\ IsPrefix(TokenTexts(Events), LexedTexts)

C8_Witness ==
    /\ Len(TokenTexts(Events)) >= 2
    /\ TokenTexts(Events)[1] # TokenTexts(Events)[2]

\* C10: at the head of the loop, when the next token is a recognised leader,
\* the loop calls a production, whatever errors have been accumulated.
C10_LeaderIsDispatched ==
    [][(pc = "loop" /\ parser.tokens # <<>> /\ Last(parser.tokens).data \in Leaders)
         => (pc' = "enter" /\ fn' # "break" /\ parser' = parser)]_vars

C10_Witness ==
    /\ pc = "enter"
    /\ iters >= 2
    /\ pushed # <<>>

\* From a token that is no leader to the return of parse: the loop breaks and
\* no later step of parse takes a token.
C11_StopStep ==
    /\ (pc = "loop" /\ parser.tokens # <<>> /\ Last(parser.tokens).data \notin Leaders)
          => (pc' = "finish_node" /\ parser' = parser)
    /\ pc \in {"finish_node", "finish"} => parser'.tokens = parser.tokens
    /\ (pc = "finish_node" /\ pc' = "finish") =>
          (Events' = Append(Events, FinishEv) /\ parser'.builder.open = <<>>)

\* C11: when the next top-level token is not the leader of a recognised
\* definition, parse consumes no further token, closes the DOCUMENT node and
\* returns, leaving the remaining tokens unconsumed.
C11_StopsAtUnknown == [][C11_StopStep]_vars

C11_Witness ==
    /\ pc = "done"
    /\ parser.tokens # <<>>
    /\ iters >= 1

\* C12: when parse has stopped with tokens other than whitespace left over,
\* the tree's errors report them.
C12_LeftoverIsReported ==
    (pc = "done" /\ \E i \in 1..Len(parser.tokens) :
                        parser.tokens[i].kind # "WHITESPACE")
        => Len(tree[1].errors) > Len(loaded) + Len(pushed)

\* C13: a top-level token `extend` is dispatched to an extension production
\* and does not end the document.
C13_ExtendIsDispatched ==
    [][(pc = "loop" /\ parser.tokens # <<>> /\ Last(parser.tokens).data = "extend")
         => pc' = "enter"]_vars

\* The k-th token still to come, by the lexer's order.
Upcoming(k) == SelectSeq(source, IsOk)[TokensConsumed + k]

\* What the four peeks return for the tokens that are left.
C20_PeekInv ==
    pc \notin {"new"} =>
        /\ \A k \in 1..Len(parser.tokens), checks \in BOOLEAN :
              /\ Parser_peek_n(parser, k, checks) = Some(Upcoming(k).kind)
              /\ Parser_peek_data_n(parser, k, checks) = Some(Upcoming(k).data)
        /\ \A checks \in BOOLEAN :
              parser.tokens # <<>> =>
              /\ Parser_peek_n(parser, 1, checks) = Parser_peek(parser)
              /\ Parser_peek_data_n(parser, 1, checks) = Parser_peek_data(parser)

\* C20: for 1 <= k <= number of remaining tokens, peek_n(k) returns the kind
\* and peek_data_n(k) the text of the k-th upcoming token, peek_n(1) is peek()
\* and peek_data_n(1) is peek_data(); a peek changes neither the token stack
\* nor the builder nor the errors.
C20_Peeks == []C20_PeekInv /\ [][ProdPeek => parser' = parser]_vars

C20_Witness ==
    /\ pc = "prod"
    /\ Len(parser.tokens) >= 2
    /\ Parser_peek_n(parser, 2, TRUE) # Parser_peek_n(parser, 1, TRUE)
    /\ Parser_peek_data_n(parser, 2, TRUE) # Parser_peek_data(parser)

\* The production each leader stands for.
LeaderProduction(text) ==
    CASE text \in {"query", "mutation", "subscription", "{"} -> "operation_definition"
      [] text = "fragment" -> "fragment_definition"
      [] text = "directive" -> "directive_definition"
      [] text = "schema" -> "schema_definition"
      [] text = "scalar" -> "scalar_type_definition"
      [] text = "type" -> "object_type_definition"
      [] text = "interface" -> "interface_type_definition"
      [] text = "union" -> "union_type_definition"
      [] text = "enum" -> "enum_type_definition"
      [] text = "input" -> "input_object_type_definition"

\* C14: the loop dispatches on the text of the next token alone, and each
\* leader selects exactly one production: the operation, fragment, directive,
\* schema or matching type definition.
C14_DispatchByText ==
    [][(pc = "loop" /\ parser.tokens # <<>> /\ Last(parser.tokens).data \in Leaders)
         => (pc' = "enter" /\ fn' = LeaderProduction(Last(parser.tokens).data)
             /\ parser' = parser)]_vars

C14_Witness ==
    /\ pc = "enter"
    /\ fn = "object_type_definition"
    /\ Parser_peek_data(parser) = Some("type")

\* C15: a top-level definition that begins with a description string is
\* parsed as that definition: the string does not end the document.
C15_DescriptionStartsDefinition ==
    [][(/\ pc = "loop"
        /\ Len(parser.tokens) >= 2
        /\ Last(parser.tokens).kind = "STRING"
        /\ Parser_peek_data_n(parser, 2, FALSE)[1] \in Leaders)
         => pc' = "enter"]_vars

\* The kind named after a nonterminal, concrete or sum.
KindOf(name) == IF name \in ConcreteViews THEN ConcreteTag[name] ELSE SumKind[name]

C16_CastInv ==
    ast.pc \in {"fmt", "done"} =>
        /\ (ast.cast # None) = AstNode_can_cast(ast.view, ast.node.kind)
        /\ ast.view \in ConcreteViews =>
              ((ast.cast # None) = (ast.node.kind = ConcreteTag[ast.view]))
        /\ ast.view \in SumViews =>
              ((ast.cast # None) =
                  (\E variant \in SumVariants[ast.view] : ast.node.kind = KindOf(variant)))
        /\ ast.cast # None => AstNode_syntax(ast.cast[1]) = ast.node

\* C16: for every typed view and node, cast(node) is present iff
\* can_cast(node.kind); for a concrete view that is when the kind is the
\* view's own tag, for a sum view when it is the kind of a listed variant.
C16_CastIffCanCast == []C16_CastInv

\* A sum view has accepted a node of the kind of one of its variants, and a
\* concrete view has refused a node of another kind.
C16_Witness ==
    /\ ast.pc = "fmt"
    /\ ast.view = "Selection"
    /\ ast.node.kind = "FRAGMENT_SPREAD"
    /\ ast.cast # None
    /\ ast.cast[1].variant = "FragmentSpread"

\* The kinds of the definition nodes the parser places directly under DOCUMENT.
DefinitionKinds ==
    { "OPERATION_DEFINITION", "FRAGMENT_DEFINITION", "SCHEMA_DEFINITION",
      "DIRECTIVE_DEFINITION" } \cup SumCanCast["TypeDefinition"]

IsDefinitionNode(node) == node.kind \in DefinitionKinds

\* The nodes the items of a sequence of view values wrap.
SyntaxOf(items) == [i \in 1..Len(items) |-> AstNode_syntax(items[i])]

\* C17: Document::definitions() yields, in order, every definition node the
\* parser has placed directly under DOCUMENT.
C17_DefinitionsYieldsAll ==
    pc = "done" =>
        LET doc == SyntaxTree_document(tree[1])
        IN SyntaxOf(Document_definitions(doc))
              = SelectSeq(SyntaxNode_children(AstNode_syntax(doc)), IsDefinitionNode)

\* C18: rendering a typed view, concrete or sum, gives the rendering of its
\* underlying syntax node: the texts of the terminals of its subtree, in
\* order, nothing added or dropped.
C18_RendersSubtree ==
    [](ast.pc = "done" =>
          /\ ast.text = Some(SyntaxNode_fmt(ast.node))
          /\ ast.text[1] = TokenTexts(ast.cast[1].syntax.events))

\* A sum view over a subtree with terminals at two depths has been rendered.
C18_Witness ==
    /\ ast.pc = "done"
    /\ ast.view \in SumViews
    /\ ast.text[1] = <<"{", " ", "a", "}">>

\* The renderings of a sequence of view values, one after the other.
RECURSIVE Rendered(_)
Rendered(items) ==
    IF items = <<>> THEN <<>> ELSE View_fmt(items[1]) \o Rendered(Tail(items))

\* C19: for every input, the renderings of the items of
\* Document::definitions() of the parsed tree, in order, reproduce the input.
C19_DefinitionsReproduceInput ==
    pc = "done" =>
        Rendered(Document_definitions(SyntaxTree_document(tree[1]))) = LexedTexts

\* A step in which a production consumes a token and holds none before or after.
BumpStep == pc = "prod" /\ held = None /\ held' = None /\ consumed' = consumed + 1

\* C21: with a token remaining, bump(kind) removes exactly the next token
\* from the stack and appends exactly one token event, with the caller's kind
\* and the removed token's text; the errors and the other tokens are unchanged.
C21_BumpMovesNextToken ==
    [][BumpStep =>
          /\ parser.tokens # <<>>
          /\ parser'.tokens = Front(parser.tokens)
          /\ \E kind \in TokenKinds :
                parser'.builder.events =
                    Append(Events, TokenEv(kind, Last(parser.tokens).data))
          /\ parser'.errors = parser.errors]_vars

\* A production has bumped the second token of a two-token input.
C21_Witness ==
    /\ pc = "prod"
    /\ held = None
    /\ consumed = 2
    /\ parser.tokens = <<>>
    /\ Len(Events) >= 4
    /\ Events[Len(Events)] = TokenEv("KW", LexedTexts[2])

\* A step that finalizes the builder: it is the first, no guard is live and
\* every node opened has been closed.
C22_FinalizeStep ==
    tree' # tree =>
        /\ tree = None
        /\ guards = {}
        /\ NumEv(Events, "start_node") = NumEv(Events, "finish_node")
        /\ tree' = Some(Builder_finish(parser.builder, parser.errors))

C23_DepthIsCapped ==
    /\ Cardinality(guards) <= RecursionLimit
    /\ Len(parser.builder.open) <= RecursionLimit

\* The number, among the start_node calls, of the call that made event i.
StartCall(evs, i) == NumEv(SubSeq(evs, 1, i), "start_node")

\* The start_node calls whose nodes are open after the events.
OpenNodes(evs) ==
    { StartCall(evs, i) : i \in { j \in 1..Len(evs) :
          evs[j].ev = "start_node" /\ SubtreeEnd(evs, j) = Len(evs) + 1 } }

\* The start_node call whose node the last event closes (0 when the last
\* event closes none).
ClosedNode(evs) ==
    LET opened == { i \in 1..Len(evs) :
                      evs[i].ev = "start_node" /\ SubtreeEnd(evs, i) = Len(evs) }
    IN IF evs = <<>> \/ evs[Len(evs)].ev # "finish_node" \/ opened = {} THEN 0
       ELSE StartCall(evs, CHOOSE i \in opened : TRUE)

Max(S) == CHOOSE x \in S : \A y \in S : y <= x

C25_BalancedInv ==
    /\ NumEv(Events, "finish_node") <= NumEv(Events, "start_node")
    /\ Cardinality(guards) = NumEv(Events, "start_node") - NumEv(Events, "finish_node")
    /\ \A i \in 1..Len(Events) : IsTokenEv(Events[i]) => DepthAfter(Events, i) >= 1

\* C25: at every point the finish_node events are at most the start_node
\* events, the live guards are as many as their difference, and every token
\* event is emitted while at least one node is open.
C25_Balanced == []C25_BalancedInv

\* Inside a production, with two guards live, a node closed and a token
\* recorded.
C25_Witness ==
    /\ pc = "prod"
    /\ Cardinality(guards) = 2
    /\ NumEv(Events, "finish_node") >= 1
    /\ \E i \in 1..Len(Events) : IsTokenEv(Events[i]) /\ DepthAfter(Events, i) = 3

\* The texts of the tokens removed so far: those recorded by the builder and
\* the one a production holds.
RemovedTexts == TokenTexts(Events) \o (IF held = None THEN <<>> ELSE <<held[1].data>>)

C26_StackInv ==
    pc # "new" =>
        LET lexed == SelectSeq(source, IsOk)
            n == Len(lexed) - Len(parser.tokens)
        IN /\ n >= 0
           /\ Reverse(parser.tokens) = SubSeq(lexed, n + 1, Len(lexed))
           /\ RemovedTexts = [i \in 1..n |-> lexed[i].data]

C26_StackStep ==
    pc # "new" =>
        \/ parser'.tokens = parser.tokens
        \/ parser.tokens # <<>> /\ parser'.tokens = Front(parser.tokens)

\* C26: tokens are only ever removed from the stack, one at a time from the
\* top, and the tokens removed followed by the remaining ones, read from the
\* top down, are always the tokens the lexer produced.
C26_TokensOnlyLeaveFromTop == []C26_StackInv /\ [][C26_StackStep]_vars

\* A production holds the first of two different tokens, popped and not yet
\* recorded; the second is still on the stack.
C26_Witness ==
    /\ pc = "prod"
    /\ held # None
    /\ Len(parser.tokens) = 1
    /\ held[1] # parser.tokens[1]

\* C27: for the empty input parse returns a tree whose DOCUMENT root has no
\* children and whose errors are empty: the only builder events are
\* start_node(DOCUMENT) and its finish_node.
C27_EmptyInput ==
    (pc = "done" /\ source = <<>>) =>
        /\ tree[1].root = <<StartEv("DOCUMENT"), FinishEv>>
        /\ tree[1].errors = <<>>
        /\ SyntaxNode_children(AstNode_syntax(SyntaxTree_document(tree[1]))) = <<>>
        /\ TokenTexts(tree[1].root) = <<>>

\* parse has returned for the empty input.
C27_Witness ==
    /\ pc = "done"
    /\ source = <<>>
    /\ tree # None
    /\ iters = 0

\* C28: for every sum view S with a variant view V and every node n, if
\* V::cast(n) is present then S::cast(n) is present and equals
\* S::from(V::cast(n)), the sums whose variants are sums included.
C28_VariantCastLifts ==
    (ast.pc = "fmt" /\ ast.view \in SumViews) =>
        \A variant \in SumVariants[ast.view] :
            LET inner == AstNode_cast(variant, ast.node)
            IN inner # None =>
                  /\ ast.cast # None
                  /\ ast.cast[1] = View_from(ast.view, variant, inner[1])

\* C29: when fewer than k tokens remain, peek_n(k) and peek_data_n(k) return
\* absent and do not fail; peek_n(0) and peek_data_n(0) return absent too.
C29_PeekPastEndIsAbsent ==
    (peeked # None /\ (peeked[1].n > Len(parser.tokens) \/ peeked[1].n = 0)) =>
        /\ peeked[1].kind = None
        /\ peeked[1].data = None

\* A step in which a production pops a token and keeps it.
PopStep == pc = "prod" /\ held = None /\ held' # None

\* A step in which a production records the token it has kept.
PushAstStep == pc = "prod" /\ held # None /\ held' = None

\* C30: with a token remaining, pop() followed at once by push_ast(kind,
\* popped token) leaves the token stack, the builder events and the errors as
\* a single bump(kind) does; pop() alone removes the token and records nothing.
C30_PopPushAstIsBump ==
    [][/\ PopStep =>
            /\ held' = Some(Last(parser.tokens))
            /\ parser'.tokens = Front(parser.tokens)
            /\ parser'.builder = parser.builder
            /\ parser'.errors = parser.errors
            /\ \A kind \in TokenKinds :
                  Parser_push_ast(parser', kind, held'[1]) = Parser_bump(parser, kind)
       /\ PushAstStep =>
            \E kind \in TokenKinds :
                parser' = Parser_bump([parser EXCEPT !.tokens = Append(@, held[1])], kind)
      ]_vars

\* A production has recorded the first token under a kind of its own choice
\* and has popped the second, which is off the stack and not in the tree.
C30_Witness ==
    /\ pc = "prod"
    /\ consumed = 2
    /\ held = Some(SelectSeq(source, IsOk)[2])
    /\ parser.tokens = <<>>
    /\ TokenTexts(Events) = <<LexedTexts[1]>>
    /\ Events[Len(Events)] = TokenEv("KW", LexedTexts[1])

====
